---- MODULE Spec2Model ----
(***************************************************************************)
(* cpb::HoppingBlocks: hopping coordinates arranged in per-family blocks.  *)
(* The store is a vector of blocks, a block a vector of COO (row, col)     *)
(* pairs; the family id of a block is its index in the store.              *)
(***************************************************************************)
EXTENDS Integers, Sequences, FiniteSets, TLC

\* ------------------------------------------------------------------ bounds
MaxSites    == 2   \* num_sites is drawn from 0..MaxSites, row/col from 0..MaxSites
MaxFamilies == 2   \* num_families is drawn from 0..MaxFamilies
MaxEntries  == 2   \* no more than MaxEntries pairs are ever stored

VARIABLES
    ctor,        \* the constructor call that built the store (never changes)
    num_sites,   \* HoppingBlocks::num_sites
    blocks,      \* HoppingBlocks::blocks, each block with its vector capacity
    unreserved,  \* a second store fed the same add/append calls and no reserve
    status,      \* "ok", "crashed" or "undefined" (after undefined behaviour)
    in_contract, \* every add/append so far passed row, col in [0, num_sites)
    pc,          \* "idle", or "loop" inside a begin()..end() traversal
    iter,        \* the Iterator of the running traversal
    visited,     \* the elements the running traversal has seen
    last,        \* the most recent call and its arguments
    ret          \* what the most recent call returned

vars == <<ctor, num_sites, blocks, unreserved, status, in_contract,
          pc, iter, visited, last, ret>>

\* ------------------------------------------------------------- input sets
Coords     == 0 .. MaxSites          \* row and col values of pre-built blocks
FewRows    == {0}                    \* a two-pair sample of row and col arguments:
FewCols    == {0, 1}                 \*   (0, 0) and (0, 1)
SiteCounts == 0 .. MaxSites
Indeterminate == {-1, 0, 1}          \* what an uninitialised num_sites may read as:
                                     \*   a sample of negative, zero and positive
CountVals  == 0 .. MaxEntries        \* per-family counts given to reserve

Max(a, b) == IF a < b THEN b ELSE a

\* ------------------------------------------------------------------- COO
\* static_cast<storage_idx_t>(idx_t): the narrowing keeps every value that
\* fits the storage type. The integers of this model are 32-bit themselves,
\* so all of them fit and none is wrapped.
ToStorage(x) == x

COO(row, col) == [row |-> ToStorage(row), col |-> ToStorage(col)]

COO_eq(a, b) == a.row = b.row /\ a.col = b.col

COO_lt_rowonly(a, b) == a.row < b.row

COO_lt(a, b) == a.row < b.row \/ (a.row = b.row /\ a.col < b.col)

\* --------------------------------------------------------- std::vector<COO>
EmptyVector == [elems |-> <<>>, cap |-> 0]

\* reallocation that forgets to move the old elements
push_back_lossy(v, x) ==
    IF Len(v.elems) < v.cap
    THEN [elems |-> Append(v.elems, x), cap |-> v.cap]
    ELSE [elems |-> <<x>>, cap |-> IF v.cap = 0 THEN 1 ELSE 2 * v.cap]

\* push_back: in place while size < capacity, else reallocate (doubling)
push_back(v, x) ==
    IF Len(v.elems) < v.cap
    THEN [elems |-> Append(v.elems, x), cap |-> v.cap]
    ELSE [elems |-> Append(v.elems, x), cap |-> IF v.cap = 0 THEN 1 ELSE 2 * v.cap]

\* std::vector::reserve: capacity grows to n, never shrinks; elements stay
vector_reserve(v, n) == [elems |-> v.elems, cap |-> Max(v.cap, n)]

\* ------------------------------------------------------------ HoppingBlocks
\* get_blocks(): the block contents
get_blocks(b) == [i \in DOMAIN b |-> b[i].elems]

HoppingBlocks_swapped(sites, families) ==
    [num_sites |-> families, blocks |-> [i \in 1 .. sites |-> EmptyVector]]

\* HoppingBlocks(idx_t num_sites, idx_t num_families)
HoppingBlocks(sites, families) ==
    [num_sites |-> sites, blocks |-> [i \in 1 .. families |-> EmptyVector]]

\* HoppingBlocks(Blocks data): num_sites is left uninitialised
HoppingBlocks_data(data, garbage) ==
    [num_sites |-> garbage,
     blocks |-> [i \in DOMAIN data |-> [elems |-> data[i], cap |-> Len(data[i])]]]

\* HoppingBlocks() = default: no blocks, num_sites is left uninitialised
HoppingBlocks_default(garbage) == [num_sites |-> garbage, blocks |-> <<>>]

InRangeFamily(b, family_id) == family_id >= 0 /\ family_id < Len(b)

add_overwrite(b, family_id, row, col) ==
    [b EXCEPT ![family_id + 1] =
        IF Len(@.elems) = 0 THEN push_back(@, COO(row, col))
        ELSE [@ EXCEPT !.elems[Len(@.elems)] = COO(row, col)]]

add_front(b, family_id, row, col) ==
    [b EXCEPT ![family_id + 1] =
        [elems |-> <<COO(row, col)>> \o @.elems, cap |-> push_back(@, COO(row, col)).cap]]

add_onebased(b, family_id, row, col) ==
    [b EXCEPT ![family_id + 1] = push_back(@, COO(row + 1, col + 1))]

\* add(family_id, row, col): blocks[family_id].push_back({row, col})
add(b, family_id, row, col) ==
    [b EXCEPT ![family_id + 1] = push_back(@, COO(row, col))]

\* append(family_id, rows, cols): the pairs (rows[i], cols[i]) go to the end
\* of the family's block in array order, storage taken in one step
append(b, family_id, rows, cols) ==
    [b EXCEPT ![family_id + 1] =
        [elems |-> @.elems \o [i \in 1 .. Len(rows) |-> COO(rows[i], cols[i])],
         cap   |-> Max(@.cap, Len(@.elems) + Len(rows))]]

\* reserve(counts): blocks[i].reserve(counts[i]) for every family
reserve(b, counts) == [i \in DOMAIN b |-> vector_reserve(b[i], counts[i])]

\* nnz(): the block sizes accumulated over the blocks
RECURSIVE accumulate(_, _)
accumulate(b, n) ==
    IF b = <<>> THEN n ELSE accumulate(Tail(b), n + Len(Head(b).elems))

nnz(b) == accumulate(b, 0)

\* ----------------------------------------------------------------- Iterator
\* Iterator(Blocks::const_iterator it): `it` is the offset into the store; id = 0
Iterator(it) == [it |-> it, id |-> 0]

begin(b) == Iterator(0)

end_short(b) == Iterator(IF Len(b) = 0 THEN 0 ELSE Len(b) - 1)

end(b) == Iterator(Len(b))

family_id_onebased(i) == i.id + 1

family_id(i) == i.id

coordinates(b, i) == b[i.it + 1].elems

increment_keep_id(i) == [it |-> i.it + 1, id |-> i.id]

\* operator++: ++it; ++id
increment(i) == [it |-> i.it + 1, id |-> ToStorage(i.id + 1)]

\* operator== compares the positions only
Iterator_eq(a, c) == a.it = c.it

Iterator_ne(a, c) == ~Iterator_eq(a, c)

\* operator*: the element a traversal sees at i
deref(b, i) == [family_id |-> family_id(i), coordinates |-> coordinates(b, i)]

\* for (auto const& block : store): the elements seen from i up to end()
RECURSIVE for_each(_, _, _)
for_each(b, i, seen) ==
    IF Iterator_ne(i, end(b))
    THEN for_each(b, increment(i), Append(seen, deref(b, i)))
    ELSE seen

\* ------------------------------------------------------------------- to_csr
\* step 1: every block flattened into (row, col, family_id) triples
RECURSIVE flatten(_)
flatten(seen) ==
    IF seen = <<>> THEN <<>>
    ELSE [k \in DOMAIN Head(seen).coordinates |->
            [row   |-> Head(seen).coordinates[k].row,
             col   |-> Head(seen).coordinates[k].col,
             value |-> ToStorage(Head(seen).family_id)]]
         \o flatten(Tail(seen))

\* step 2: stable sort by row, then col (insertion keeps equal keys in order)
RECURSIVE insert_sorted(_, _)
insert_sorted(s, x) ==
    IF s = <<>> THEN <<x>>
    ELSE IF COO_lt(x, Head(s)) THEN <<x>> \o s
    ELSE <<Head(s)>> \o insert_sorted(Tail(s), x)

RECURSIVE stable_sort(_)
stable_sort(s) ==
    IF s = <<>> THEN <<>>
    ELSE insert_sorted(stable_sort(SubSeq(s, 1, Len(s) - 1)), s[Len(s)])

\* step 3: entries counted per row, then prefix-summed
row_count(t, r) == Cardinality({k \in DOMAIN t : t[k].row = r})

RECURSIVE prefix_sum(_, _)
prefix_sum(t, r) == IF r = 0 THEN 0 ELSE prefix_sum(t, r - 1) + row_count(t, r - 1)

\* to_csr is defined when the matrix dimension is one and every row is in it
csr_defined(sites, b) ==
    /\ sites >= 0
    /\ \A f \in DOMAIN b : \A k \in DOMAIN b[f].elems :
          b[f].elems[k].row >= 0 /\ b[f].elems[k].row < sites

\* step 4: row pointers, column indices and values in sorted order
to_csr(sites, b) ==
    LET t == stable_sort(flatten(for_each(b, begin(b), <<>>)))
    IN  [kind   |-> "csr",
         rowptr |-> [r \in 1 .. sites + 1 |-> prefix_sum(t, r - 1)],
         cols   |-> [k \in DOMAIN t |-> t[k].col],
         vals   |-> [k \in DOMAIN t |-> t[k].value]]

\* ------------------------------------------------------------ construction
Void == [kind |-> "void"]

Constructed(hb, c) ==
    /\ ctor = c
    /\ num_sites = hb.num_sites
    /\ blocks = hb.blocks
    /\ unreserved = hb.blocks
    /\ status = "ok"
    /\ in_contract = TRUE
    /\ pc = "idle"
    /\ iter = Iterator(0)
    /\ visited = <<>>
    /\ last = [op |-> "construct"]
    /\ ret = Void

\* HoppingBlocks(num_sites, num_families)
InitSized ==
    \E s \in SiteCounts, f \in 0 .. MaxFamilies :
        Constructed(HoppingBlocks(s, f),
                    [kind |-> "sized", num_sites |-> s, num_families |-> f])

\* pre-built block collections: up to MaxFamilies blocks of at most one pair
PrebuiltBlock == {<<>>} \cup {<<COO(r, c)>> : r \in Coords, c \in Coords}

PrebuiltBlocks ==
    UNION {[1 .. f -> PrebuiltBlock] : f \in 0 .. MaxFamilies}

RECURSIVE SeqSum(_)
SeqSum(s) == IF s = <<>> THEN 0 ELSE Head(s) + SeqSum(Tail(s))

\* HoppingBlocks(Blocks data) and HoppingBlocks()
InitUnsized ==
    \E g \in Indeterminate :
        \/ Constructed(HoppingBlocks_default(g),
                       [kind |-> "default", num_sites |-> g, num_families |-> 0])
        \/ \E data \in PrebuiltBlocks :
              /\ SeqSum([i \in DOMAIN data |-> Len(data[i])]) <= MaxEntries
              /\ Constructed(HoppingBlocks_data(data, g),
                             [kind |-> "data", num_sites |-> g,
                              num_families |-> Len(data)])

Init == InitSized

InitAny == InitSized \/ InitUnsized

\* ---------------------------------------------------------------- actions
Callable == status = "ok" /\ pc = "idle"

InSites(x) == x >= 0 /\ x < num_sites

\* blocks[family_id] past the ends of the store is undefined behaviour: the
\* push_back goes through whatever bytes lie there. The process dies, or the
\* write lands outside the store, or it lands on a stored pair.
OutOfRangeWrite(x) ==
    /\ unreserved' = unreserved
    /\ \/ status' = "crashed" /\ blocks' = blocks
       \/ status' = "undefined" /\ blocks' = blocks
       \/ /\ status' = "undefined"
          /\ \E f \in DOMAIN blocks :
                \E k \in DOMAIN blocks[f].elems :
                    blocks' = [blocks EXCEPT ![f].elems[k] = x]

\* every valid index of the matrix and the first invalid one
Indices == 0 .. num_sites

\* family_id arguments: the blocks of the store; the same and one step past
\* either end
ValidFamilyIds == 0 .. Len(blocks) - 1
FamilyIds == -1 .. Len(blocks)

DoAdd(Families, Rows, Cols) ==
    \E fam \in Families, row \in Rows, col \in Cols :
        /\ Callable
        /\ nnz(blocks) < MaxEntries
        /\ last' = [op |-> "add", family_id |-> fam, row |-> row, col |-> col]
        /\ ret' = Void
        /\ in_contract' = (in_contract /\ InSites(row) /\ InSites(col))
        /\ IF InRangeFamily(blocks, fam)
           THEN /\ blocks' = add(blocks, fam, row, col)
                /\ unreserved' = add(unreserved, fam, row, col)
                /\ status' = status
           ELSE OutOfRangeWrite(COO(row, col))
        /\ UNCHANGED <<ctor, num_sites, pc, iter, visited>>

\* equal-length row and column arrays of at most n entries
ArrayPairs(Rows, Cols, n) ==
    UNION {[1 .. k -> Rows] \X [1 .. k -> Cols] : k \in 0 .. n}

\* (a family_id past the ends of the store is exercised at add)
DoAppend(Rows, Cols) ==
    \E fam \in ValidFamilyIds,
       rc \in ArrayPairs(Rows, Cols, MaxEntries - nnz(blocks)) :
        LET rows == rc[1]
            cols == rc[2]
        IN  /\ Callable
            /\ last' = [op |-> "append", family_id |-> fam, rows |-> rows, cols |-> cols]
            /\ ret' = Void
            /\ in_contract' = (in_contract /\ \A i \in DOMAIN rows :
                                  InSites(rows[i]) /\ InSites(cols[i]))
            /\ blocks' = append(blocks, fam, rows, cols)
            /\ unreserved' = append(unreserved, fam, rows, cols)
            /\ UNCHANGED <<ctor, num_sites, status, pc, iter, visited>>

DoReserve ==
    \E counts \in [DOMAIN blocks -> CountVals] :
        /\ Callable
        /\ blocks' = reserve(blocks, counts)
        /\ last' = [op |-> "reserve"]
        /\ ret' = Void
        /\ UNCHANGED <<ctor, num_sites, unreserved, status, in_contract, pc, iter, visited>>

DoNnz ==
    /\ Callable
    /\ last' = [op |-> "nnz"]
    /\ ret' = [kind |-> "idx", value |-> nnz(blocks)]
    /\ UNCHANGED <<ctor, num_sites, blocks, unreserved, status, in_contract, pc, iter, visited>>

DoToCsr ==
    /\ Callable
    /\ last' = [op |-> "to_csr"]
    /\ IF csr_defined(num_sites, blocks)
       THEN ret' = to_csr(num_sites, blocks) /\ status' = status
       ELSE ret' = Void /\ status' = "undefined"
    /\ UNCHANGED <<ctor, num_sites, blocks, unreserved, in_contract, pc, iter, visited>>

\* it = begin()
DoBegin ==
    /\ Callable
    /\ pc' = "loop"
    /\ iter' = begin(blocks)
    /\ visited' = <<>>
    /\ last' = [op |-> "begin"]
    /\ ret' = Void
    /\ UNCHANGED <<ctor, num_sites, blocks, unreserved, status, in_contract>>

\* it != end(): read *it, then ++it
DoIncrement ==
    /\ status = "ok" /\ pc = "loop"
    /\ Iterator_ne(iter, end(blocks))
    /\ visited' = Append(visited, deref(blocks, iter))
    /\ iter' = increment(iter)
    /\ last' = [op |-> "increment"]
    /\ UNCHANGED <<ctor, num_sites, blocks, unreserved, status, in_contract, pc, ret>>

\* it == end(): the loop is left
DoEnd ==
    /\ status = "ok" /\ pc = "loop"
    /\ Iterator_eq(iter, end(blocks))
    /\ pc' = "idle"
    /\ ret' = [kind |-> "traversal", seq |-> visited]
    /\ visited' = <<>>
    /\ iter' = Iterator(0)
    /\ last' = [op |-> "traverse"]
    /\ UNCHANGED <<ctor, num_sites, blocks, unreserved, status, in_contract>>

\* every operation of the store, on the two-pair sample of coordinates
Next ==
    \/ DoAdd(FamilyIds, FewRows, FewCols)
    \/ DoAppend(FewRows, FewCols)
    \/ DoReserve
    \/ DoNnz
    \/ DoToCsr
    \/ DoBegin
    \/ DoIncrement
    \/ DoEnd

Spec == Init /\ [][Next]_vars

\* filling the store with any indices and converting it
NextCsr ==
    \/ DoAdd(ValidFamilyIds, Indices, Indices)
    \/ DoAppend(Indices, Indices)
    \/ DoToCsr

SpecCsr == Init /\ [][NextCsr]_vars

\* filling a store built by any of the three constructors
NextFill ==
    \/ DoAdd(ValidFamilyIds, Indices, Indices)
    \/ DoAppend(Indices, Indices)

SpecAnyCtor == InitAny /\ [][NextFill]_vars

\* ================================================================== claims
\* the places (family, offset) at which the store holds a pair
Positions(b) == UNION {{<<f, k>> : k \in DOMAIN b[f].elems} : f \in DOMAIN b}

PairAt(b, p) == b[p[1]].elems[p[2]]

AddStep == last'.op = "add" /\ vars' # vars
AppendStep == last'.op = "append" /\ vars' # vars
ReserveStep == last'.op = "reserve" /\ vars' # vars

\* ---- C1 -----------------------------------------------------------------
C1_State ==
    /\ nnz(blocks) = Cardinality(Positions(blocks))
    /\ (last.op = "construct" => nnz(blocks) = 0)
    /\ (last.op = "nnz" => ret.kind = "idx" /\ ret.value = Cardinality(Positions(blocks)))

\* C1: after any sequence of add, append and reserve calls nnz() is the sum
\* of the lengths of all blocks (0 for a fresh store), and every add with an
\* in-range family_id raises nnz() by exactly 1.
C1_NnzIsSumOfBlockLengths ==
    /\ C1_State
    /\ [][/\ C1_State'
          /\ (AddStep /\ InRangeFamily(blocks, last'.family_id)
                => nnz(blocks') = nnz(blocks) + 1)]_vars

C1_Witness ==
    /\ last.op = "nnz" /\ ret.value = MaxEntries
    /\ \E f, g \in DOMAIN blocks : f # g /\ blocks[f].elems # <<>> /\ blocks[g].elems # <<>>
    /\ \E f \in DOMAIN blocks : blocks[f].cap > Len(blocks[f].elems)

\* ---- C2 -----------------------------------------------------------------
\* add(family_id, rows[i], cols[i]) for i = 0 .. k-1, one call after the other
RECURSIVE add_each(_, _, _, _)
add_each(b, fam, rows, cols) ==
    IF rows = <<>> THEN b
    ELSE add_each(add(b, fam, Head(rows), Head(cols)), fam, Tail(rows), Tail(cols))

\* C2: append(family_id, rows, cols) with an in-range family_id and arrays of
\* length k leaves the block contents that k sequential add calls leave: the
\* family's block grows by exactly k, the pairs at its end in array order, and
\* every other block is unchanged.
C2_AppendIsSequentialAdd ==
    [][AppendStep =>
        LET fam  == last'.family_id
            rows == last'.rows
            cols == last'.cols
            old  == blocks[fam + 1].elems
            new  == blocks'[fam + 1].elems
        IN  /\ get_blocks(blocks') = get_blocks(add_each(blocks, fam, rows, cols))
            /\ Len(new) = Len(old) + Len(rows)
            /\ SubSeq(new, 1, Len(old)) = old
            /\ \A i \in DOMAIN rows :
                  new[Len(old) + i] = [row |-> rows[i], col |-> cols[i]]
            /\ \A g \in DOMAIN blocks : g # fam + 1 => blocks'[g] = blocks[g]]_vars

C2_Witness ==
    /\ last.op = "append"
    /\ Len(last.rows) = 2
    /\ last.cols[1] # last.cols[2]
    /\ Len(blocks) = 2
    /\ blocks[last.family_id + 1].elems =
          [i \in 1 .. 2 |-> [row |-> last.rows[i], col |-> last.cols[i]]]

\* ---- C3 -----------------------------------------------------------------
\* C3: add(family_id, row, col) with family_id outside [0, num_families)
\* fails: no block receives the pair, every block and nnz() stay as they were.
C3_OutOfRangeAddFails ==
    [][AddStep /\ ~InRangeFamily(blocks, last'.family_id)
        => /\ status' = "crashed"
           /\ get_blocks(blocks') = get_blocks(blocks)
           /\ nnz(blocks') = nnz(blocks)]_vars

\* ---- C4 -----------------------------------------------------------------
RowsInRange(b) ==
    \A p \in Positions(b) : PairAt(b, p).row >= 0 /\ PairAt(b, p).row < num_sites

\* C4: when every stored row is in [0, num_sites), the row pointers of
\* to_csr() have length num_sites + 1, start at 0, do not decrease, differ by
\* the number of stored pairs of each row and end at nnz(); with nothing
\* stored they are all zero and the column and value arrays are empty.
C4_RowPointers ==
    (last.op = "to_csr" /\ RowsInRange(blocks)) =>
        /\ status = "ok"
        /\ ret.kind = "csr"
        /\ Len(ret.rowptr) = num_sites + 1
        /\ ret.rowptr[1] = 0
        /\ \A r \in 1 .. num_sites :
              /\ ret.rowptr[r] <= ret.rowptr[r + 1]
              /\ ret.rowptr[r + 1] - ret.rowptr[r] =
                    Cardinality({p \in Positions(blocks) : PairAt(blocks, p).row = r - 1})
        /\ ret.rowptr[num_sites + 1] = nnz(blocks)
        /\ Len(ret.cols) = nnz(blocks)
        /\ Len(ret.vals) = nnz(blocks)
        /\ (nnz(blocks) = 0 =>
              /\ \A r \in DOMAIN ret.rowptr : ret.rowptr[r] = 0
              /\ ret.cols = <<>>
              /\ ret.vals = <<>>)

C4_Witness ==
    /\ last.op = "to_csr" /\ status = "ok"
    /\ num_sites = MaxSites
    /\ nnz(blocks) = MaxEntries
    /\ ret.rowptr[1] < ret.rowptr[2]
    /\ ret.rowptr[2] < ret.rowptr[3]

\* ---- C5 -----------------------------------------------------------------
NoDuplicates(b) ==
    \A p, q \in Positions(b) : p # q => ~COO_eq(PairAt(b, p), PairAt(b, q))

\* C5: when no (row, col) pair is stored twice, the column indices of each
\* row of the to_csr() output are strictly ascending, whatever the insertion
\* order and the families.
C5_ColumnsAscending ==
    (last.op = "to_csr" /\ status = "ok" /\ NoDuplicates(blocks)) =>
        \A r \in 1 .. num_sites :
            \A k \in (ret.rowptr[r] + 1) .. (ret.rowptr[r + 1] - 1) :
                ret.cols[k] < ret.cols[k + 1]

\* a row whose larger column was inserted first, into the lower family
C5_Witness ==
    /\ last.op = "to_csr" /\ status = "ok" /\ NoDuplicates(blocks)
    /\ Len(blocks) = 2
    /\ blocks[1].elems # <<>> /\ blocks[2].elems # <<>>
    /\ blocks[1].elems[1].row = blocks[2].elems[1].row
    /\ blocks[1].elems[1].col > blocks[2].elems[1].col

\* ---- C6 -----------------------------------------------------------------
\* C6: grouping the entries of the to_csr() output by value gives, for every
\* family, exactly the multiset of pairs of that family's block: each value is
\* the id of the block the entry came from, nothing is lost, added or moved.
C6_RoundTrip ==
    (last.op = "to_csr" /\ status = "ok") =>
        /\ Len(ret.cols) = Len(ret.vals)
        /\ ret.rowptr[num_sites + 1] = Len(ret.cols)
        /\ \A k \in DOMAIN ret.vals : ret.vals[k] >= 0 /\ ret.vals[k] < Len(blocks)
        /\ \A fam \in DOMAIN blocks, r \in 1 .. num_sites, c \in Coords :
              Cardinality({k \in (ret.rowptr[r] + 1) .. ret.rowptr[r + 1] :
                              ret.cols[k] = c /\ ret.vals[k] = fam - 1})
              = Cardinality({k \in DOMAIN blocks[fam].elems :
                              blocks[fam].elems[k] = [row |-> r - 1, col |-> c]})

\* the same pair held by two families, and another pair besides
C6_Witness ==
    /\ last.op = "to_csr" /\ status = "ok"
    /\ Len(blocks) = 2
    /\ blocks[1].elems # <<>> /\ blocks[2].elems # <<>>
    /\ ret.vals = <<0, 1>>
    /\ ret.cols[1] = ret.cols[2]
    /\ ret.rowptr[2] = 0

\* ---- C7 -----------------------------------------------------------------
\* what a traversal of the store b is to see
Enumerate(b) ==
    [k \in DOMAIN b |-> [family_id |-> k - 1, coordinates |-> b[k].elems]]

C7_State ==
    /\ pc = "loop" =>
          /\ iter.it <= Len(blocks)
          /\ Len(visited) = iter.it
          /\ visited = SubSeq(Enumerate(blocks), 1, Len(visited))
    /\ last.op = "traverse" =>
          /\ Len(ret.seq) = ctor.num_families
          /\ ret.seq = Enumerate(blocks)

\* C7: a traversal from begin() to end() visits exactly num_families elements
\* and ends; the k-th element reports family_id() = k and the coordinates of
\* block k; no step of it changes a block. What it yields is a function of
\* the store alone, so a second traversal of the same store yields the same.
C7_Traversal ==
    /\ C7_State
    /\ [][/\ C7_State'
          /\ (pc = "loop" \/ pc' = "loop") => blocks' = blocks
          /\ (pc = "loop" /\ pc' = "loop") => iter'.it = iter.it + 1]_vars

C7_Witness ==
    /\ last.op = "traverse"
    /\ Len(ret.seq) = 2
    /\ ret.seq[1].coordinates # <<>>
    /\ ret.seq[2].coordinates # <<>>
    /\ ret.seq[1].coordinates # ret.seq[2].coordinates

\* ---- C8 -----------------------------------------------------------------
\* C8: reserve(counts) changes no block's contents and not nnz(), and the
\* store reached by reserve calls among a sequence of add/append calls holds
\* the same block contents, in the same order, as the store reached by that
\* sequence without the reserve calls.
C8_ReserveIsAdvisory ==
    /\ get_blocks(blocks) = get_blocks(unreserved)
    /\ [][/\ ReserveStep =>
                /\ get_blocks(blocks') = get_blocks(blocks)
                /\ nnz(blocks') = nnz(blocks)
          /\ status' = "ok" => get_blocks(blocks') = get_blocks(unreserved')]_vars

\* pairs inserted after a reserve that left one block with room to spare and
\* another block to grow on its own
C8_Witness ==
    /\ last.op = "add" /\ status = "ok"
    /\ Len(blocks) = 2
    /\ blocks[1].elems # <<>> /\ blocks[2].elems # <<>>
    /\ blocks[1].cap > unreserved[1].cap
    /\ blocks[2].cap = unreserved[2].cap

\* ---- C9 -----------------------------------------------------------------
\* C9: the number of blocks is the num_families given at construction after
\* any sequence of add, append, reserve, nnz, traversal and to_csr calls;
\* only the lengths of the blocks change, and they never decrease.
C9_BlockCountFixed ==
    /\ Len(blocks) = ctor.num_families
    /\ [][/\ Len(blocks') = ctor.num_families
          /\ \A f \in DOMAIN blocks :
                Len(blocks'[f].elems) >= Len(blocks[f].elems)]_vars

C9_Witness ==
    /\ last.op = "to_csr"
    /\ Len(blocks) = MaxFamilies
    /\ nnz(blocks) = MaxEntries
    /\ \E f \in DOMAIN blocks : blocks[f].cap > Len(blocks[f].elems)

\* ---- C10 ----------------------------------------------------------------
AllInSites(b) ==
    \A p \in Positions(b) : InSites(PairAt(b, p).row) /\ InSites(PairAt(b, p).col)

\* C10 as stated: however the store was constructed and whatever add/append
\* calls followed, every stored pair's row and col lie in [0, num_sites).
C10_AlwaysInSites == AllInSites(blocks)

\* C10 as amended: in a store built with HoppingBlocks(num_sites,
\* num_families), while every add/append call has passed a family_id of the
\* store and row and col in [0, num_sites), every stored pair's row and col
\* lie in [0, num_sites).
C10_InSitesWhileInContract ==
    (ctor.kind = "sized" /\ in_contract) =>
        /\ num_sites = ctor.num_sites
        /\ AllInSites(blocks)

C10_Witness ==
    /\ ctor.kind = "sized" /\ in_contract
    /\ last.op = "append"
    /\ nnz(blocks) = MaxEntries
    /\ \E f \in DOMAIN blocks : blocks[f].elems # <<>> /\ blocks[f].elems[1].row = num_sites - 1

====
